---- MODULE Spec2Model ----
(***************************************************************************)
(* Model of vps_monitor.py: the reconciliation pass (get_vps_configs,      *)
(* establish_ssh_connection, check_and_run_script, check_all_vps), the     *)
(* shared mapping vps_status, the status server's two reads (one host,     *)
(* and the overview of all hosts), and the scheduler loop of main with its *)
(* shutdown.                                                               *)
(*                                                                         *)
(* Text (script paths, probe output) is a sequence of one-character        *)
(* strings.  Python's None is the sentinel NoneStr for the hostname and    *)
(* username variables and NonePath for the script path.                    *)
(***************************************************************************)
EXTENDS Integers, Sequences, FiniteSets, TLC

VARIABLES
    env,            \* os.environ: slot index -> HOSTNAME_i, USERNAME_i, SCRIPT_PATH_i
    vps_status,     \* the module-level dict: hostname -> record
    key_order,      \* the keys of vps_status in insertion order, as a dict iterates them
    pc,             \* position of the main thread
    caller,         \* who called check_all_vps: "initial" (main:201) or "scheduled" (main:212)
    vps_configs,    \* check_all_vps' local list of configs
    i,              \* position of the for loop of check_all_vps (1-based)
    config,         \* check_and_run_script's parameter
    attempt,        \* establish_ssh_connection's local counter
    client,         \* "unset" | "None" | "open" | "closed": the session of the current call
    output,         \* decoded, stripped probe output (check_and_run_script:90)
    status,         \* check_and_run_script's local status
    err,            \* str(e) of the exception caught at line 109
    now,            \* wall clock, in seconds since main started
    next_run,       \* the schedule job's next due time, -1 before it is scheduled
    heartbeat_count,
    flask_shutdown_event,
    flask_thread,   \* "unstarted" | "running" | "stopped"
    passes,         \* number of check_all_vps calls started
    starts,         \* the clock at the start of each check_all_vps call, in order
    ends,           \* the clock at the end of each completed for loop of check_all_vps
    \* ---- the status-server request being served (vps_status_detail)
    r_pc,           \* "idle" | "found" | "done"
    r_host,         \* hostname of the request
    r_result,       \* response: [code, body]
    \* ---- the overview request being served (index)
    ix_pc,          \* "idle" | "iter" | "done"
    ix_len,         \* len(vps_status) when the items() iterator was created
    ix_pos,         \* entries the iterator has yielded
    ix_rows,        \* the (hostname, record) pairs rendered so far
    ix_result,      \* response: [code, body]
    \* ---- observation of the current check_and_run_script invocation
    raw,            \* decoded probe output before strip()
    connects,       \* client.connect calls made
    sleeps,         \* time.sleep(delay) calls made
    cmds,           \* exec_command calls issued, in order
    nwrites,        \* stores into vps_status made
    wrote,          \* hostname of the last store
    raisedAt,       \* "" | "basename" | "probe" | "restart": what raised inside the try block
    stores,         \* stores into vps_status made since main started
    checked,        \* indexes of the configs the current pass has called check_and_run_script on
    written,        \* every record ever stored into vps_status, with its hostname
    faults,         \* failures the environment has injected so far
    requests        \* status-server requests accepted so far

vars == <<env, vps_status, key_order, pc, caller, vps_configs, i, config, attempt, client,
          output, status, err, now, next_run, heartbeat_count,
          flask_shutdown_event, flask_thread, passes, r_pc, r_host, r_result,
          raw, connects, sleeps, cmds, nwrites, wrote, raisedAt, stores,
          checked, written, faults, requests, starts, ends, ix_pc, ix_len, ix_pos,
          ix_rows, ix_result>>

schedVars == <<next_run, heartbeat_count, flask_shutdown_event, flask_thread>>
checkVars == <<config, attempt, client, output, status, err>>
obsVars == <<raw, connects, sleeps, cmds, nwrites, wrote, raisedAt, stores>>
indexVars == <<ix_pc, ix_len, ix_pos, ix_rows, ix_result>>
readerVars == <<r_pc, r_host, r_result, requests, indexVars>>

----------------------------------------------------------------------------
(* Bounds *)
MaxIndex == 2          \* environment slots HOSTNAME_1 .. HOSTNAME_MaxIndex
MaxHeartbeat == 121    \* ticks of the main loop before the model stops
MaxFaults == 6         \* failures the environment injects in one run
MaxRequests == 1       \* status-server requests in one run

(* Program constants *)
retries == 3
delay == 5
TickSeconds == 60
PeriodSeconds == 3600

NoneStr == "<None>"
NonePath == <<"<None>">>
Hostnames == {"a", "b"}
Usernames == {"u"}
Chars == {"/", "s", " "}
Whitespace == {" "}

ScriptPaths == {NonePath, <<>>, <<"/", "s">>}
\* decoded probe outputs: nothing, a blank line, another process, the script
\* alone, the script with an argument
Outputs == {<<>>, <<" ">>, <<"s">>, <<"/", "s">>, <<"/", "s", " ", "s">>}

----------------------------------------------------------------------------
(* Pure functions *)

\* str.strip(): drop leading and trailing whitespace
RECURSIVE LStrip(_)
LStrip(s) == IF s # <<>> /\ Head(s) \in Whitespace THEN LStrip(Tail(s)) ELSE s
RECURSIVE RStrip(_)
RStrip(s) == IF s # <<>> /\ s[Len(s)] \in Whitespace
             THEN RStrip(SubSeq(s, 1, Len(s) - 1)) ELSE s
Strip(s) == RStrip(LStrip(s))

\* the `in` operator on str: sub occurs in s as a contiguous substring
Contains(sub, s) ==
    \E k \in 0..(Len(s) - Len(sub)) : SubSeq(s, k + 1, k + Len(sub)) = sub

\* os.path.basename: what follows the last "/"
RECURSIVE basename(_)
basename(p) == IF p = <<>> THEN <<>>
               ELSE IF p[Len(p)] = "/" THEN <<>>
               ELSE Append(basename(SubSeq(p, 1, Len(p) - 1)), p[Len(p)])

\* mutant: the whole output is compared with the path
ScriptRunningExact(out, script_path) == out # <<>> /\ out = script_path

\* line 92: `output and script_path in output`
ScriptRunning(out, script_path) == out # <<>> /\ Contains(script_path, out)

\* get_vps_configs: slots 1, 2, ... up to the first one without a hostname
RECURSIVE LoadFrom(_, _)
LoadFrom(e, index) ==
    IF index \notin DOMAIN e \/ e[index].hostname = NoneStr THEN <<>>
    ELSE <<[index |-> index,
            hostname |-> e[index].hostname,
            username |-> e[index].username,
            script_path |-> e[index].script_path]>> \o LoadFrom(e, index + 1)
get_vps_configs(e) == LoadFrom(e, 1)

\* the dict literal of lines 76-81, 102-107 and 111-116
StatusRecord(cfg, st, t) ==
    [index |-> cfg.index, status |-> st, last_check |-> t,
     username |-> cfg.username]

\* mutant: an existing record is updated in place, status and time only
StoreItemInPlace(d, hostname, record) ==
    IF hostname \in DOMAIN d
    THEN [d EXCEPT ![hostname].status = record.status,
                   ![hostname].last_check = record.last_check]
    ELSE [h \in DOMAIN d \cup {hostname} |-> IF h = hostname THEN record ELSE d[h]]

\* mutant: the store rebinds the dict to one holding the new record only
StoreItemAlone(d, hostname, record) ==
    [h \in {hostname} |-> record]

\* vps_status[hostname] = record
StoreItem(d, hostname, record) ==
    [h \in DOMAIN d \cup {hostname} |-> IF h = hostname THEN record ELSE d[h]]

\* insertion order of a dict: a new key goes last, an existing key keeps its place
KeyOrder(order, hostname) ==
    IF \E k \in 1..Len(order) : order[k] = hostname THEN order
    ELSE Append(order, hostname)

ErrorStatus(detail) == "Error: " \o detail

NoConfig == [index |-> 0, hostname |-> NoneStr, username |-> NoneStr,
             script_path |-> NonePath]
NoResult == [code |-> 0]
NoOutput == <<"<None>">>
NotFound == [code |-> 404, body |-> [error |-> "VPS not found"]]
KeyErrorResult == [code |-> 500, body |-> [error |-> "KeyError"]]

----------------------------------------------------------------------------
(* Initial state: the module has been imported, main has not run yet *)

UnsetSlot == [hostname |-> NoneStr, username |-> NoneStr, script_path |-> NonePath]
EnvSlots == {UnsetSlot} \cup
            [hostname : Hostnames, username : Usernames \cup {NoneStr},
             script_path : ScriptPaths]

InitRest ==
    /\ vps_status = << >>
    /\ key_order = <<>>
    /\ pc = "main"
    /\ caller = "none"
    /\ vps_configs = <<>>
    /\ i = 0
    /\ config = NoConfig
    /\ attempt = 0
    /\ client = "unset"
    /\ output = <<>>
    /\ status = ""
    /\ err = ""
    /\ now = 0
    /\ next_run = -1
    /\ heartbeat_count = 0
    /\ flask_shutdown_event = FALSE
    /\ flask_thread = "unstarted"
    /\ passes = 0
    /\ r_pc = "idle"
    /\ r_host = NoneStr
    /\ r_result = NoResult
    /\ raw = NoOutput
    /\ raisedAt = ""
    /\ stores = 0
    /\ connects = 0
    /\ sleeps = 0
    /\ cmds = <<>>
    /\ nwrites = 0
    /\ wrote = NoneStr
    /\ checked = {}
    /\ written = {}
    /\ faults = 0
    /\ requests = 0
    /\ starts = <<>>
    /\ ends = <<>>
    /\ ix_pc = "idle"
    /\ ix_len = 0
    /\ ix_pos = 0
    /\ ix_rows = <<>>
    /\ ix_result = NoResult

Init ==
    /\ env \in [1..MaxIndex -> EnvSlots]
    /\ InitRest

\* the environments in which every configured host has its USERNAME_i set
NamedSlots == {UnsetSlot} \cup
              [hostname : Hostnames, username : Usernames,
               script_path : ScriptPaths]

InitPass ==
    /\ env \in [1..MaxIndex -> NamedSlots]
    /\ InitRest

\* the environments in which every configured host has a username, and its
\* script path is unset or a real path
WellFormedSlots == {UnsetSlot} \cup
                   [hostname : Hostnames, username : Usernames,
                    script_path : {NonePath, <<"/", "s">>}]

InitConc ==
    /\ env \in [1..MaxIndex -> WellFormedSlots]
    /\ InitRest

\* the environments that configure at most one host, in slot 1
InitSched ==
    /\ env \in {e \in [1..MaxIndex -> WellFormedSlots] :
                    \A k \in 2..MaxIndex : e[k] = UnsetSlot}
    /\ InitRest

----------------------------------------------------------------------------
(* main, up to the initial pass (lines 187-201) *)

MainStart ==
    /\ pc = "main"
    /\ flask_thread' = "running"
    /\ caller' = "initial"
    /\ pc' = "check_all_vps"
    /\ UNCHANGED <<env, starts, ends, vps_status, key_order,
                   vps_configs, i, checkVars, now, next_run,
                   heartbeat_count, flask_shutdown_event, passes, readerVars,
                   obsVars, checked, written, faults>>

(* check_all_vps (lines 120-124): load the configs and enter the for loop *)
CheckAllVpsBegin ==
    /\ pc = "check_all_vps"
    /\ vps_configs' = get_vps_configs(env)
    /\ i' = 1
    /\ checked' = {}
    /\ passes' = passes + 1
    /\ starts' = Append(starts, now)
    /\ pc' = IF Len(vps_configs') = 0 THEN "table" ELSE "check"
    /\ UNCHANGED <<env, ends, vps_status, key_order, caller, checkVars, now, schedVars,
                   readerVars, obsVars, written, faults>>

\* mutant: the for loop walks the configs from the last to the first
CheckBeginBackwards ==
    /\ pc = "check"
    /\ config' = vps_configs[Len(vps_configs) + 1 - i]
    /\ checked' = checked \cup {i}
    /\ attempt' = 0
    /\ client' = "None"
    /\ output' = <<>>
    /\ status' = ""
    /\ err' = ""
    /\ raw' = NoOutput
    /\ raisedAt' = ""
    /\ stores' = stores
    /\ connects' = 0
    /\ sleeps' = 0
    /\ cmds' = <<>>
    /\ nwrites' = 0
    /\ wrote' = NoneStr
    /\ pc' = "connect"
    /\ UNCHANGED <<env, starts, ends, vps_status, key_order,
                   caller, vps_configs, i, now, schedVars,
                   passes, readerVars, written, faults>>

(* check_and_run_script is entered for vps_configs[i] (lines 71-73, 50-51) *)
CheckBegin ==
    /\ pc = "check"
    /\ config' = vps_configs[i]
    /\ checked' = checked \cup {i}
    /\ attempt' = 0
    /\ client' = "None"
    /\ output' = <<>>
    /\ status' = ""
    /\ err' = ""
    /\ raw' = NoOutput
    /\ raisedAt' = ""
    /\ stores' = stores
    /\ connects' = 0
    /\ sleeps' = 0
    /\ cmds' = <<>>
    /\ nwrites' = 0
    /\ wrote' = NoneStr
    /\ pc' = "connect"
    /\ UNCHANGED <<env, starts, ends, vps_status, key_order,
                   caller, vps_configs, i, now, schedVars,
                   passes, readerVars, written, faults>>

\* mutant: the for loop stops one config early
ReturnToSkipsLast == IF i + 1 < Len(vps_configs) THEN "check" ELSE "table"

\* check_and_run_script returns: the for loop of check_all_vps advances
ReturnTo == IF i + 1 <= Len(vps_configs) THEN "check" ELSE "table"

\* a store into vps_status, as seen by the observation variables
Store(record) ==
    /\ vps_status' = StoreItem(vps_status, config.hostname, record)
    /\ key_order' = KeyOrder(key_order, config.hostname)
    /\ nwrites' = nwrites + 1
    /\ wrote' = config.hostname
    /\ stores' = stores + 1
    /\ written' = written \cup {<<config.hostname, record>>}

\* mutant: the delay is also waited after the successful attempt
ConnectOkThenSleep ==
    /\ pc = "connect"
    /\ attempt < retries
    /\ connects' = connects + 1
    /\ sleeps' = sleeps + 1
    /\ now' = now + delay
    /\ client' = "open"
    /\ pc' = "probe"
    /\ UNCHANGED <<env, starts, ends, vps_status, key_order,
                   caller, vps_configs, i, config, attempt,
                   output, status, err, schedVars, passes, readerVars,
                   raw, cmds, nwrites, wrote, raisedAt, stores, checked,
                   written, faults>>

(* establish_ssh_connection (lines 48-69) *)
ConnectOk ==
    /\ pc = "connect"
    /\ attempt < retries
    /\ connects' = connects + 1
    /\ client' = "open"
    /\ pc' = "probe"
    /\ UNCHANGED <<env, starts, ends, vps_status, key_order,
                   caller, vps_configs, i, config, attempt,
                   output, status, err, now, schedVars, passes, readerVars,
                   raw, sleeps, cmds, nwrites, wrote, raisedAt, stores, checked,
                   written, faults>>

\* mutant: a failed attempt is counted twice
ConnectFailCountsTwice ==
    /\ pc = "connect"
    /\ attempt < retries
    /\ faults < MaxFaults
    /\ faults' = faults + 1
    /\ connects' = connects + 1
    /\ attempt' = attempt + 2
    /\ sleeps' = sleeps + 1
    /\ now' = now + delay
    /\ UNCHANGED <<env, starts, ends, vps_status, key_order,
                   pc, caller, vps_configs, i, config, client,
                   output, status, err, schedVars, passes, readerVars,
                   raw, cmds, nwrites, wrote, raisedAt, stores, checked, written>>

\* mutant: no delay is waited after the last failed attempt
ConnectFailNoLastSleep ==
    /\ pc = "connect"
    /\ attempt < retries
    /\ faults < MaxFaults
    /\ faults' = faults + 1
    /\ connects' = connects + 1
    /\ attempt' = attempt + 1
    /\ sleeps' = IF attempt' < retries THEN sleeps + 1 ELSE sleeps
    /\ now' = IF attempt' < retries THEN now + delay ELSE now
    /\ UNCHANGED <<env, starts, ends, vps_status, key_order,
                   pc, caller, vps_configs, i, config, client,
                   output, status, err, schedVars, passes, readerVars,
                   raw, cmds, nwrites, wrote, raisedAt, stores, checked, written>>

ConnectFail ==
    /\ pc = "connect"
    /\ attempt < retries
    /\ faults < MaxFaults
    /\ faults' = faults + 1
    /\ connects' = connects + 1
    /\ attempt' = attempt + 1
    /\ sleeps' = sleeps + 1
    /\ now' = now + delay
    /\ UNCHANGED <<env, starts, ends, vps_status, key_order,
                   pc, caller, vps_configs, i, config, client,
                   output, status, err, schedVars, passes, readerVars,
                   raw, cmds, nwrites, wrote, raisedAt, stores, checked, written>>

\* mutant: a host that cannot be reached ends the for loop
ConnectionFailedAborts ==
    /\ pc = "connect"
    /\ attempt >= retries
    /\ Store(StatusRecord(config, "Connection Failed", now))
    /\ attempt' = 0
    /\ i' = Len(vps_configs) + 1
    /\ pc' = "table"
    /\ UNCHANGED <<env, starts, ends,
                   caller, vps_configs, config, client, output, status,
                   err, now, schedVars, passes, readerVars, raw, connects,
                   sleeps, cmds, raisedAt, checked, faults>>

\* mutant: the probe is issued although there is no session
ConnectionFailedProbes ==
    /\ pc = "connect"
    /\ attempt >= retries
    /\ Store(StatusRecord(config, "Connection Failed", now))
    /\ cmds' = Append(cmds, [kind |-> "probe",
                              arg |-> basename(config.script_path)])
    /\ attempt' = 0
    /\ i' = i + 1
    /\ pc' = ReturnTo
    /\ UNCHANGED <<env, starts, ends, caller, vps_configs, config, client,
                   output, status, err, now, schedVars, passes, readerVars,
                   raw, connects, sleeps, raisedAt, checked, faults>>

(* the retry budget is spent: return None, and lines 75-82 *)
ConnectionFailed ==
    /\ pc = "connect"
    /\ attempt >= retries
    /\ Store(StatusRecord(config, "Connection Failed", now))
    /\ attempt' = 0
    /\ i' = i + 1
    /\ pc' = ReturnTo
    /\ UNCHANGED <<env, starts, ends,
                   caller, vps_configs, config, client, output, status,
                   err, now, schedVars, passes, readerVars, raw, connects,
                   sleeps, cmds, raisedAt, checked, faults>>

(* check_and_run_script, the try block (lines 84-107) *)
ProbeCommand(script_path) == [kind |-> "probe", arg |-> basename(script_path)]
RestartCommand(script_path) == [kind |-> "restart", arg |-> script_path]
ProbeErrors == {"SSHException", "UnicodeDecodeError"}

\* line 86: os.path.basename(None) raises before any command is issued
ProbeTypeError ==
    /\ pc = "probe"
    /\ config.script_path = NonePath
    /\ err' = "TypeError"
    /\ raisedAt' = "basename"
    /\ pc' = "except"
    /\ UNCHANGED <<env, starts, ends, vps_status, key_order,
                   caller, vps_configs, i, config, attempt,
                   client, output, status, now, schedVars, passes, readerVars,
                   raw, connects, sleeps, cmds, nwrites, wrote, stores,
                   checked, written, faults>>

\* lines 88-90 raise: exec_command, stdout.read() or decode('utf-8') fails
ProbeFail ==
    /\ pc = "probe"
    /\ config.script_path # NonePath
    /\ faults < MaxFaults
    /\ faults' = faults + 1
    /\ \E e \in ProbeErrors : err' = e
    /\ raisedAt' = "probe"
    /\ cmds' = Append(cmds, ProbeCommand(config.script_path))
    /\ pc' = "except"
    /\ UNCHANGED <<env, starts, ends, vps_status, key_order,
                   caller, vps_configs, i, config, attempt,
                   client, output, status, now, schedVars, passes, readerVars,
                   raw, connects, sleeps, nwrites, wrote, stores, checked, written>>

\* lines 88-95: the probe answers with the text o
ProbeOk ==
    /\ pc = "probe"
    /\ config.script_path # NonePath
    /\ \E o \in Outputs :
        /\ raw' = o
        /\ output' = Strip(o)
    /\ cmds' = Append(cmds, ProbeCommand(config.script_path))
    /\ IF ScriptRunning(output', config.script_path)
       THEN status' = "Running" /\ pc' = "write"
       ELSE status' = status /\ pc' = "restart"
    /\ UNCHANGED <<env, starts, ends, vps_status, key_order,
                   caller, vps_configs, i, config, attempt,
                   client, err, now, schedVars, passes, readerVars,
                   connects, sleeps, nwrites, wrote, raisedAt, stores, checked,
                   written, faults>>

\* mutant: the probe is issued again after the restart
RestartOkReprobes ==
    /\ pc = "restart"
    /\ cmds' = cmds \o <<RestartCommand(config.script_path),
                          ProbeCommand(config.script_path)>>
    /\ status' = "Restarted"
    /\ pc' = "write"
    /\ UNCHANGED <<env, starts, ends, vps_status, key_order,
                   caller, vps_configs, i, config, attempt,
                   client, output, err, now, schedVars, passes, readerVars,
                   raw, connects, sleeps, nwrites, wrote, raisedAt, stores,
                   checked, written, faults>>

\* lines 96-100
RestartOk ==
    /\ pc = "restart"
    /\ cmds' = Append(cmds, RestartCommand(config.script_path))
    /\ status' = "Restarted"
    /\ pc' = "write"
    /\ UNCHANGED <<env, starts, ends, vps_status, key_order,
                   caller, vps_configs, i, config, attempt,
                   client, output, err, now, schedVars, passes, readerVars,
                   raw, connects, sleeps, nwrites, wrote, raisedAt, stores,
                   checked, written, faults>>

\* line 98 raises
RestartFail ==
    /\ pc = "restart"
    /\ faults < MaxFaults
    /\ faults' = faults + 1
    /\ cmds' = Append(cmds, RestartCommand(config.script_path))
    /\ err' = "SSHException"
    /\ raisedAt' = "restart"
    /\ pc' = "except"
    /\ UNCHANGED <<env, starts, ends, vps_status, key_order,
                   caller, vps_configs, i, config, attempt,
                   client, output, status, now, schedVars, passes, readerVars,
                   raw, connects, sleeps, nwrites, wrote, stores, checked, written>>

\* lines 102-107
WriteStatus ==
    /\ pc = "write"
    /\ Store(StatusRecord(config, status, now))
    /\ pc' = "finally"
    /\ UNCHANGED <<env, starts, ends,
                   caller, vps_configs, i, checkVars, now, schedVars,
                   passes, readerVars, raw, connects, sleeps, cmds, raisedAt,
                   checked, faults>>

\* mutant: the except block logs and writes nothing
WriteErrorSkipsStore ==
    /\ pc = "except"
    /\ pc' = "finally"
    /\ UNCHANGED <<env, starts, ends, vps_status, key_order,
                   caller, vps_configs, i, checkVars, now,
                   schedVars, passes, readerVars, obsVars, checked, written, faults>>

\* mutant: the except block writes the verdict of the restart branch
WriteErrorAsRestarted ==
    /\ pc = "except"
    /\ Store(StatusRecord(config, "Restarted", now))
    /\ pc' = "finally"
    /\ UNCHANGED <<env, starts, ends,
                   caller, vps_configs, i, checkVars, now, schedVars,
                   passes, readerVars, raw, connects, sleeps, cmds, raisedAt,
                   checked, faults>>

\* the except block (lines 109-116)
WriteError ==
    /\ pc = "except"
    /\ Store(StatusRecord(config, ErrorStatus(err), now))
    /\ pc' = "finally"
    /\ UNCHANGED <<env, starts, ends,
                   caller, vps_configs, i, checkVars, now, schedVars,
                   passes, readerVars, raw, connects, sleeps, cmds, raisedAt,
                   checked, faults>>

\* mutant: close() sits at the end of the try block, not in a finally
CloseClientOnSuccessOnly ==
    /\ pc = "finally"
    /\ client' = IF raisedAt = "" THEN "closed" ELSE client
    /\ attempt' = 0
    /\ output' = <<>>
    /\ status' = ""
    /\ i' = i + 1
    /\ pc' = ReturnTo
    /\ UNCHANGED <<env, starts, ends, vps_status, key_order,
                   caller, vps_configs, config, err, now,
                   schedVars, passes, readerVars, obsVars, checked, written, faults>>

\* the finally block (lines 117-118), and the return; SSHClient.close() is
\* taken not to raise
CloseClient ==
    /\ pc = "finally"
    /\ client' = "closed"
    /\ attempt' = 0
    /\ output' = <<>>
    /\ status' = ""
    /\ i' = i + 1
    /\ pc' = ReturnTo
    /\ UNCHANGED <<env, starts, ends, vps_status, key_order,
                   caller, vps_configs, config, err, now,
                   schedVars, passes, readerVars, obsVars, checked, written, faults>>

----------------------------------------------------------------------------
(* check_all_vps after the for loop: the logged table (lines 126-140) *)

\* line 136: status['username'][:8] raises TypeError on a None username
TableRaises(d) == \E h \in DOMAIN d : d[h].username = NoneStr

LogTable ==
    /\ pc = "table"
    /\ ends' = Append(ends, now)
    /\ pc' = IF TableRaises(vps_status)
             THEN (IF caller = "initial" THEN "crashed" ELSE "finally_main")
             ELSE (IF caller = "initial" THEN "schedule" ELSE "rescheduled")
    /\ UNCHANGED <<env, starts, vps_status, key_order,
                   caller, vps_configs, i, checkVars, now,
                   schedVars, passes, readerVars, obsVars, checked, written, faults>>

(* main, the periodic regime (lines 203-222) *)

\* line 204: schedule.every(1).hours.do(check_all_vps)
ScheduleJob ==
    /\ pc = "schedule"
    /\ next_run' = now + PeriodSeconds
    /\ pc' = "loop"
    /\ UNCHANGED <<env, starts, ends, vps_status, key_order,
                   caller, vps_configs, i, checkVars, now,
                   heartbeat_count, flask_shutdown_event, flask_thread, passes,
                   readerVars, obsVars, checked, written, faults>>

\* lines 211-212 when the job is due: the loop test passes and
\* schedule.run_pending() calls check_all_vps; when the event is set the loop ends
RunPending ==
    /\ pc = "loop"
    /\ flask_shutdown_event \/ now >= next_run
    /\ IF flask_shutdown_event
       THEN pc' = "finally_main" /\ caller' = caller
       ELSE pc' = "check_all_vps" /\ caller' = "scheduled"
    /\ UNCHANGED <<env, starts, ends, vps_status, key_order,
                   vps_configs, i, checkVars, now, schedVars,
                   passes, readerVars, obsVars, checked, written, faults>>

\* mutant: the job is not rescheduled and stays due
JobRanStaysDue ==
    /\ pc = "rescheduled"
    /\ next_run' = next_run
    /\ pc' = "sleep"
    /\ UNCHANGED <<env, starts, ends, vps_status, key_order,
                   caller, vps_configs, i, checkVars, now,
                   heartbeat_count, flask_shutdown_event, flask_thread, passes,
                   readerVars, obsVars, checked, written, faults>>

\* the job has run inside run_pending: it is due again one period later
JobRan ==
    /\ pc = "rescheduled"
    /\ next_run' = now + PeriodSeconds
    /\ pc' = "sleep"
    /\ UNCHANGED <<env, starts, ends, vps_status, key_order,
                   caller, vps_configs, i, checkVars, now,
                   heartbeat_count, flask_shutdown_event, flask_thread, passes,
                   readerVars, obsVars, checked, written, faults>>

\* lines 213-216 after a pass
Sleep ==
    /\ pc = "sleep"
    /\ heartbeat_count < MaxHeartbeat
    /\ now' = now + TickSeconds
    /\ heartbeat_count' = heartbeat_count + 1
    /\ pc' = "loop"
    /\ UNCHANGED <<env, starts, ends, vps_status, key_order,
                   caller, vps_configs, i, checkVars, next_run,
                   flask_shutdown_event, flask_thread, passes, readerVars,
                   obsVars, checked, written, faults>>

\* lines 211-216 when nothing is due: one whole iteration of the loop
Tick ==
    /\ pc = "loop"
    /\ ~flask_shutdown_event
    /\ now < next_run
    /\ heartbeat_count < MaxHeartbeat
    /\ now' = now + TickSeconds
    /\ heartbeat_count' = heartbeat_count + 1
    /\ UNCHANGED <<env, starts, ends, vps_status, key_order,
                   pc, caller, vps_configs, i, checkVars,
                   next_run, flask_shutdown_event, flask_thread, passes,
                   readerVars, obsVars, checked, written, faults>>

\* the try block of main (lines 210-216): the loop, and the passes it runs
InPeriodicRegime ==
    \/ pc \in {"loop", "sleep", "rescheduled"}
    \/ caller = "scheduled" /\ pc \in {"check_all_vps", "check", "connect", "probe",
                                       "restart", "write", "except", "finally",
                                       "table"}

\* lines 217-218: KeyboardInterrupt raised in the main thread inside the try
\* block.  Inside check_and_run_script's try block the finally of lines
\* 117-118 closes the session on the way out; `except Exception` (lines 64,
\* 109) does not catch it
Interrupt ==
    /\ InPeriodicRegime
    /\ client' = IF pc \in {"probe", "restart", "write", "except", "finally"}
                 THEN "closed" ELSE client
    /\ pc' = "finally_main"
    /\ UNCHANGED <<env, starts, ends, vps_status, key_order, caller, vps_configs, i,
                   config, attempt, output, status, err, now, schedVars, passes,
                   readerVars, obsVars, checked, written, faults>>

\* mutant: main returns without waiting for the server thread
FinallyMainNoJoin ==
    /\ pc = "finally_main"
    /\ flask_shutdown_event' = TRUE
    /\ pc' = "returned"
    /\ UNCHANGED <<env, starts, ends, vps_status, key_order, caller, vps_configs, i,
                   checkVars, now, next_run, heartbeat_count, flask_thread,
                   passes, readerVars, obsVars, checked, written, faults>>

\* lines 219-220: set the event, then wait for the server thread
FinallyMain ==
    /\ pc = "finally_main"
    /\ flask_shutdown_event' = TRUE
    /\ pc' = "join"
    /\ UNCHANGED <<env, starts, ends, vps_status, key_order,
                   caller, vps_configs, i, checkVars, now,
                   next_run, heartbeat_count, flask_thread, passes, readerVars,
                   obsVars, checked, written, faults>>

\* lines 221-222: flask_thread.join() returns once the thread has ended
Join ==
    /\ pc = "join"
    /\ flask_thread = "stopped"
    /\ pc' = "returned"
    /\ UNCHANGED <<env, starts, ends, vps_status, key_order, caller, vps_configs, i,
                   checkVars, now, schedVars, passes, readerVars, obsVars,
                   checked, written, faults>>

----------------------------------------------------------------------------
(* The status server thread (lines 178-185).  app.run serves until it raises
   or returns; it never reads flask_shutdown_event, so whether and when it
   ends is the environment's choice. *)
RunFlaskEnds ==
    /\ flask_thread = "running"
    /\ r_pc \in {"idle", "done"}
    /\ ix_pc \in {"idle", "done"}
    /\ flask_thread' = "stopped"
    /\ UNCHANGED <<env, starts, ends, vps_status, key_order, pc, caller, vps_configs,
                   i, checkVars, now, next_run, heartbeat_count,
                   flask_shutdown_event, passes, readerVars, obsVars, checked,
                   written, faults>>

(* GET /status/<hostname> (lines 167-172) *)

\* mutant: the record is read without the membership test of line 169
RequestUnchecked ==
    /\ flask_thread = "running"
    /\ r_pc \in {"idle", "done"}
    /\ requests < MaxRequests
    /\ requests' = requests + 1
    /\ \E h \in Hostnames :
        /\ r_host' = h
        /\ r_pc' = "found" /\ r_result' = NoResult
    /\ UNCHANGED <<env, starts, ends, vps_status, key_order,
                   pc, caller, vps_configs, i, checkVars, now,
                   schedVars, passes, indexVars, obsVars, checked, written, faults>>

\* line 169: `hostname in vps_status`
Request ==
    /\ flask_thread = "running"
    /\ r_pc \in {"idle", "done"}
    /\ requests < MaxRequests
    /\ requests' = requests + 1
    /\ \E h \in Hostnames :
        /\ r_host' = h
        /\ IF h \in DOMAIN vps_status
           THEN r_pc' = "found" /\ r_result' = NoResult
           ELSE r_pc' = "done" /\ r_result' = NotFound
    /\ UNCHANGED <<env, starts, ends, vps_status, key_order,
                   pc, caller, vps_configs, i, checkVars, now,
                   schedVars, passes, indexVars, obsVars, checked, written, faults>>

\* line 170: jsonify(vps_status[hostname]); a missing key raises KeyError,
\* which the server answers with status 500
ReadItem ==
    /\ r_pc = "found"
    /\ r_result' = IF r_host \in DOMAIN vps_status
                   THEN [code |-> 200, body |-> vps_status[r_host]]
                   ELSE KeyErrorResult
    /\ r_pc' = "done"
    /\ UNCHANGED <<env, starts, ends, vps_status, key_order,
                   pc, caller, vps_configs, i, checkVars, now,
                   schedVars, passes, r_host, requests, indexVars, obsVars, checked,
                   written, faults>>

----------------------------------------------------------------------------
(* The status server thread: GET / (lines 142-165).  The template's for loop
   walks vps_status.items() of the live dict, one entry per step of the
   rendering, while the main thread runs. *)

RuntimeErrorResult == [code |-> 500, body |-> "dictionary changed size during iteration"]

\* line 165 enters the template: the for loop creates the items() iterator,
\* which remembers the size of the dict
IndexBegin ==
    /\ flask_thread = "running"
    /\ ix_pc \in {"idle", "done"}
    /\ r_pc \in {"idle", "done"}
    /\ requests < MaxRequests
    /\ requests' = requests + 1
    /\ ix_len' = Len(key_order)
    /\ ix_pos' = 0
    /\ ix_rows' = <<>>
    /\ ix_result' = NoResult
    /\ ix_pc' = "iter"
    /\ UNCHANGED <<env, starts, ends, vps_status, key_order, pc, caller, vps_configs,
                   i, checkVars, now, schedVars, passes, r_pc, r_host, r_result,
                   obsVars, checked, written, faults>>

\* line 154: one next() of the iterator.  It raises RuntimeError when the
\* dict's size is not the remembered one, else yields the next entry in
\* insertion order, else ends the loop and the response is rendered
IndexNext ==
    /\ ix_pc = "iter"
    /\ IF Len(key_order) # ix_len
       THEN /\ ix_result' = RuntimeErrorResult
            /\ ix_pc' = "done"
            /\ UNCHANGED <<ix_pos, ix_rows>>
       ELSE IF ix_pos < Len(key_order)
       THEN /\ ix_rows' = Append(ix_rows, <<key_order[ix_pos + 1],
                                            vps_status[key_order[ix_pos + 1]]>>)
            /\ ix_pos' = ix_pos + 1
            /\ UNCHANGED <<ix_pc, ix_result>>
       ELSE /\ ix_result' = [code |-> 200, body |-> ix_rows]
            /\ ix_pc' = "done"
            /\ UNCHANGED <<ix_pos, ix_rows>>
    /\ UNCHANGED <<env, starts, ends, vps_status, key_order, pc, caller, vps_configs,
                   i, checkVars, now, schedVars, passes, r_pc, r_host, r_result,
                   requests, ix_len, obsVars, checked, written, faults>>

----------------------------------------------------------------------------
\* the steps of one check_and_run_script call
CheckStep ==
    \/ ConnectOk \/ ConnectFail \/ ConnectionFailed
    \/ ProbeTypeError \/ ProbeFail \/ ProbeOk
    \/ RestartOk \/ RestartFail
    \/ WriteStatus \/ WriteError \/ CloseClient

\* the steps of one check_all_vps call
Pass == CheckAllVpsBegin \/ CheckBegin \/ CheckStep \/ LogTable

Main ==
    \/ MainStart \/ ScheduleJob \/ RunPending \/ JobRan \/ Sleep \/ Tick

Next == Pass \/ Main

\* the whole main thread
Spec == Init /\ [][Next]_vars

\* the main thread, interrupted at any point of the periodic regime, and the
\* server thread's end
Shutdown == Interrupt \/ FinallyMain \/ Join

NextShutdown == Next \/ Shutdown \/ RunFlaskEnds

SpecShutdown == InitSched /\ [][NextShutdown]_vars

\* the main thread while nobody interrupts it, with at most one host
SpecSched == InitSched /\ [][Next]_vars

\* main up to the end of the initial pass (line 201)
NextPass == MainStart \/ Pass

SpecPass == InitPass /\ [][NextPass]_vars

\* the same program with the status-server requests interleaved
NextConc == NextPass \/ Request \/ ReadItem

SpecConc == InitConc /\ [][NextConc]_vars

\* the initial pass with the overview requests interleaved
NextIndex == NextPass \/ IndexBegin \/ IndexNext

SpecIndex == InitConc /\ [][NextIndex]_vars

----------------------------------------------------------------------------
(* Vocabulary of the properties *)

\* main is inside a check_and_run_script call
InCheck == pc \in {"connect", "probe", "restart", "write", "except", "finally"}

\* a check_and_run_script call has returned, and config, client and the
\* observation variables still describe it
Returned == ~InCheck /\ checked # {}

\* establish_ssh_connection returned a session in this call
Connected == client \in {"open", "closed"}

\* the probe of this call has answered with text
Answered == raw \in Outputs

\* the record of this call's hostname has status st
HasRecord(st) ==
    /\ config.hostname \in DOMAIN vps_status
    /\ vps_status[config.hostname].status = st

Issued(kind) == {k \in 1..Len(cmds) : cmds[k].kind = kind}

\* the for loop of the current pass is over
LoopDone == passes >= 1 /\ ~InCheck /\ pc \notin {"main", "check_all_vps", "check"}

ConfiguredHostnames ==
    {get_vps_configs(env)[k].hostname : k \in 1..Len(get_vps_configs(env))}

\* main is inside a check_all_vps call made by schedule.run_pending()
InScheduledPass == caller = "scheduled" /\ (InCheck \/ pc \in {"check", "table"})

TicksPerPeriod == PeriodSeconds \div TickSeconds

\* the writes of Connection Failed records made during the n-th pass
FailedIn(n) ==
    {w \in written : /\ w[2].status = "Connection Failed"
                     /\ starts[n] <= w[2].last_check
                     /\ w[2].last_check <= ends[n]}

\* the interrupt of lines 217-218 has been received
ShutdownSignalled == pc \in {"finally_main", "join", "returned"}

\* any step of the main thread
MainThread == Next \/ Shutdown

Complete(record) == DOMAIN record = {"index", "status", "last_check", "username"}

----------------------------------------------------------------------------
(* C1 as stated: whenever the connection succeeded and the probe output
   contains the configured script path as a substring, the record written is
   Running and no restart command was issued.  It fails for an empty
   SCRIPT_PATH_i, which every output contains, when the output is empty or
   blank: line 92 also requires a non-empty stripped output. *)
C1_Original ==
    (Returned /\ Connected /\ Answered /\ Contains(config.script_path, raw))
        => (HasRecord("Running") /\ Issued("restart") = {})

(* C1 as amended: whenever the connection succeeded and the probe output,
   stripped of surrounding whitespace, is non-empty and contains the configured
   script path as a substring, the record written by the call is Running and
   the call issued no restart command. *)
C1_RunningWhenPresent ==
    (Returned /\ Connected /\ Answered /\ Strip(raw) # <<>>
        /\ Contains(config.script_path, Strip(raw)))
        => (HasRecord("Running") /\ Issued("restart") = {})

C1_Witness ==
    /\ Returned /\ Connected
    /\ config.script_path = <<"/", "s">>
    /\ raw = <<"/", "s", " ", "s">>
    /\ HasRecord("Running")
    /\ cmds = <<ProbeCommand(config.script_path)>>

(* C2 as stated: whenever the connection succeeded and the probe output does
   not contain the script path, the call issued exactly the probe and then one
   restart command, and wrote Restarted.  It fails when issuing the restart
   command raises: the record is then Error. *)
C2_Original ==
    (Returned /\ Connected /\ Answered /\ ~Contains(config.script_path, raw))
        => /\ cmds = <<ProbeCommand(config.script_path),
                       RestartCommand(config.script_path)>>
           /\ HasRecord("Restarted")

(* C2 as amended: whenever the connection succeeded and the probe output does
   not contain the script path, the call issued exactly one probe followed by
   exactly one restart command and nothing after it; the record written is
   Restarted when issuing the restart command raised nothing and Error(detail)
   when it raised. *)
C2_RestartedWhenAbsent ==
    (Returned /\ Connected /\ Answered /\ ~Contains(config.script_path, raw))
        => /\ cmds = <<ProbeCommand(config.script_path),
                       RestartCommand(config.script_path)>>
           /\ raisedAt \in {"", "restart"}
           /\ (raisedAt = "" => HasRecord("Restarted"))
           /\ (raisedAt = "restart" => HasRecord(ErrorStatus(err)))

C2_Witness ==
    /\ Returned /\ Connected
    /\ config.script_path = <<"/", "s">>
    /\ raw = <<"s">>
    /\ raisedAt = ""
    /\ HasRecord("Restarted")
    /\ Len(cmds) = 2

(* C3: when every connection attempt of a call failed, exactly `retries` (3)
   attempts were made, never more while trying, and the record written by the
   call is Connection Failed. *)
C3_ExhaustedRetries ==
    /\ (pc = "connect" => connects = attempt /\ connects <= retries)
    /\ (Returned /\ client = "None")
           => /\ connects = retries
              /\ retries = 3
              /\ nwrites = 1
              /\ HasRecord("Connection Failed")

C3_Witness ==
    /\ Returned /\ client = "None"
    /\ connects = 3
    /\ HasRecord("Connection Failed")

(* C4: a step in which the connection succeeds is attempt number attempt + 1
   = j <= retries, makes the total of attempts j and leaves the number of
   delays waited at j - 1; and while the session is open no further attempt is
   made and no further delay is waited. *)
C4_SuccessReturnsImmediately ==
    [][ /\ (client # "open" /\ client' = "open")
            => /\ attempt < retries
               /\ connects' = attempt + 1
               /\ sleeps' = attempt
               /\ sleeps = attempt
        /\ (client = "open" => connects' = connects /\ sleeps' = sleeps) ]_vars

C4_Witness ==
    /\ client = "open"
    /\ pc = "finally"
    /\ connects = 2
    /\ sleeps = 1

(* C5: a check_and_run_script call always has a next step until it returns
   (nothing escapes it), stores at most once while it runs, and has stored
   exactly once, under its own hostname, when it has returned. *)
C5_OneWritePerCall ==
    /\ (InCheck => ENABLED CheckStep)
    /\ (InCheck => nwrites = (IF pc = "finally" THEN 1 ELSE 0))
    /\ (Returned => nwrites = 1 /\ wrote = config.hostname)

C5_Witness ==
    /\ Returned
    /\ raisedAt = "probe"
    /\ nwrites = 1
    /\ wrote = config.hostname

(* C6: when, after a successful connection, the probe or the restart command
   raised, the record written by the call is Error(detail) with the detail of
   what was raised, and is none of Running, Restarted, Connection Failed. *)
C6_FailureYieldsError ==
    (Returned /\ Connected /\ raisedAt \in {"probe", "restart"})
        => /\ err \in ProbeErrors
           /\ HasRecord(ErrorStatus(err))
           /\ ~HasRecord("Running")
           /\ ~HasRecord("Restarted")
           /\ ~HasRecord("Connection Failed")

C6_Witness ==
    /\ Returned /\ Connected
    /\ raisedAt = "restart"
    /\ HasRecord("Error: SSHException")

(* C7: outside a check_and_run_script call no session is open: a call that
   obtained a session has closed it when it returns, whatever its verdict. *)
C7_SessionClosed ==
    /\ (~InCheck => client # "open")
    /\ (Returned /\ nwrites = 1 /\ ~HasRecord("Connection Failed")
            => client = "closed")

C7_Witness ==
    /\ Returned
    /\ raisedAt = "probe"
    /\ client = "closed"

(* C8: a pass always has a next step until its for loop is over, and when the
   loop is over check_and_run_script has been called for every configured
   host, whatever happened on the hosts before it. *)
C8_EveryHostAttempted ==
    /\ (InCheck \/ pc \in {"check_all_vps", "check"} => ENABLED Pass)
    /\ (LoopDone => checked = 1..Len(get_vps_configs(env)))

C8_Witness ==
    /\ pc = "table"
    /\ Len(vps_configs) = 2
    /\ checked = {1, 2}
    /\ vps_configs[1].hostname # vps_configs[2].hostname
    /\ vps_status[vps_configs[1].hostname].status = "Connection Failed"
    /\ vps_status[vps_configs[2].hostname].status = "Running"

(* C9 as stated: when the first pass is over the store holds exactly n
   records, n the number of configured host entries.  It fails when two
   entries name the same host: the second record replaces the first. *)
C9_Original ==
    (passes = 1 /\ LoopDone)
        => Cardinality(DOMAIN vps_status) = Len(get_vps_configs(env))

(* C9 as amended: when the first pass over n configured host entries is over,
   exactly n stores have been made and the store holds exactly one record for
   each distinct configured hostname (n records when the hostnames differ). *)
C9_OneRecordPerHostname ==
    (passes = 1 /\ LoopDone)
        => /\ stores = Len(get_vps_configs(env))
           /\ DOMAIN vps_status = ConfiguredHostnames
           /\ Cardinality(DOMAIN vps_status) <= Len(get_vps_configs(env))
           /\ (Cardinality(ConfiguredHostnames) = Len(get_vps_configs(env))
                  => Cardinality(DOMAIN vps_status) = Len(get_vps_configs(env)))

C9_Witness ==
    /\ passes = 1 /\ LoopDone
    /\ Len(vps_configs) = 2
    /\ vps_configs[1].hostname = vps_configs[2].hostname
    /\ stores = 2
    /\ Cardinality(DOMAIN vps_status) = 1

(* C10: every record in the store, and every record a GET /status/<hostname>
   request has returned, has the four fields and is, as a whole, a record that
   one single store wrote under that hostname. *)
C10_NoTornRecord ==
    /\ \A h \in DOMAIN vps_status :
          Complete(vps_status[h]) /\ <<h, vps_status[h]>> \in written
    /\ (r_result.code = 200
           => Complete(r_result.body) /\ <<r_host, r_result.body>> \in written)

\* the request found the hostname, the pass then replaced its record, and the
\* request has answered
C10_Witness ==
    /\ r_pc = "done"
    /\ r_result.code = 200
    /\ pc = "finally"
    /\ config.hostname = r_host
    /\ r_result.body # vps_status[r_host]

----------------------------------------------------------------------------
(* C11: an iteration of the overview endpoint (GET /) over the store that is
   interleaved with the writes of a pass, including the insertion of a new
   hostname, always completes without failure and yields only complete
   records.  It fails: the template iterates the live dict, and the first
   record of a hostname stored between two steps of the iteration makes the
   next step raise RuntimeError, which the server answers with status 500. *)
C11_Original ==
    ix_pc = "done" =>
        /\ ix_result.code = 200
        /\ \A k \in 1..Len(ix_result.body) : Complete(ix_result.body[k][2])

----------------------------------------------------------------------------
(* C12: on start one full pass runs to completion before any external reader
   can query the status: no status-server request is answered from a store
   that lacks a record for some configured host.  It fails: main starts the
   server thread (lines 194-195) before the initial pass (line 201), so a
   request is answered while the store is still empty.  The store only grows,
   so an answer in a state whose store lacks a record was given from such a
   store. *)
C12_Original ==
    r_pc = "done" => ConfiguredHostnames \subseteq DOMAIN vps_status

----------------------------------------------------------------------------
(* C13: after a shutdown signal received during the periodic regime, the
   loop eventually exits and main eventually returns.  Stated on finite runs:
   once the signal is received, main has returned or the main thread has a
   step to take.  It fails: main waits in flask_thread.join() (line 221) for
   a server thread that nothing in the program stops, since run_flask never
   reads flask_shutdown_event; while the server runs the main thread has no
   step and main never returns. *)
C13_Original ==
    ShutdownSignalled => (pc = "returned" \/ ENABLED MainThread)

----------------------------------------------------------------------------
(* C14: once a shutdown signal has been received in the periodic regime, the
   shutdown flag is set by the main thread's next step and stays set, no
   further pass is started and nothing more is stored, and main does not
   return before the status-server thread has terminated. *)
C14_ShutdownIsSafe ==
    [][/\ ShutdownSignalled =>
            /\ ShutdownSignalled'
            /\ passes' = passes
            /\ vps_status' = vps_status
       /\ (pc = "finally_main" /\ pc' # pc) => flask_shutdown_event'
       /\ pc' \in {"join", "returned"} => flask_shutdown_event'
       /\ pc' = "returned" => flask_thread' = "stopped"]_vars

\* the signal arrived in the middle of a scheduled pass, and main has returned
\* after the server thread ended
C14_Witness ==
    /\ pc = "returned"
    /\ caller = "scheduled"
    /\ flask_shutdown_event
    /\ flask_thread = "stopped"
    /\ Len(vps_configs) >= 1
    /\ i <= Len(vps_configs)

----------------------------------------------------------------------------
(* C15 as stated: in the periodic regime passes start only at tick
   boundaries, and the start times of consecutive passes are exactly one
   period (3600) apart, for every pass duration.  Read for the passes the
   scheduler runs (the second pass onwards).  It fails: the job is
   rescheduled when the pass ends, so a pass that spent time on failed
   connection attempts pushes the next start later by its own duration. *)
C15_Original ==
    /\ InScheduledPass => heartbeat_count % TicksPerPeriod = 0
    /\ \A n \in 3..Len(starts) : starts[n] - starts[n - 1] = PeriodSeconds

(* C15 as amended: in the periodic regime passes start only at tick
   boundaries, every TicksPerPeriod-th tick of the loop, and each pass starts
   exactly one period (3600) after the previous pass ended: the start times
   of consecutive passes are one period plus the duration of the earlier
   pass apart, never less than one period. *)
C15_PeriodAfterCompletion ==
    /\ InScheduledPass =>
            heartbeat_count = (Len(starts) - 1) * TicksPerPeriod
    /\ \A n \in 2..Len(starts) :
            /\ n - 1 <= Len(ends)
            /\ starts[n] = ends[n - 1] + PeriodSeconds
            /\ starts[n] - starts[n - 1]
                   = PeriodSeconds + (ends[n - 1] - starts[n - 1])
            /\ starts[n] - starts[n - 1] >= PeriodSeconds

\* a third pass has started, after a second pass that took time
C15_Witness ==
    /\ Len(starts) = 3
    /\ ends[2] > starts[2]
    /\ starts[3] - starts[2] > PeriodSeconds

----------------------------------------------------------------------------
(* C16: the store holds at most one record per hostname (its keys, in
   insertion order, are pairwise distinct and are exactly the hostnames with
   a record); a record is never deleted: a hostname that has a record has one
   after every step; and a write for a hostname that already has a record
   replaces the whole record: all four fields are those of the current call. *)
C16_OneRecordNeverDeleted ==
    [][/\ DOMAIN vps_status \subseteq DOMAIN vps_status'
       /\ Len(key_order') = Cardinality(DOMAIN vps_status')
       /\ {key_order'[k] : k \in 1..Len(key_order')} = DOMAIN vps_status'
       /\ \A h \in DOMAIN vps_status' :
            (h \notin DOMAIN vps_status \/ vps_status'[h] # vps_status[h]) =>
                /\ h = config.hostname
                /\ Complete(vps_status'[h])
                /\ vps_status'[h].index = config.index
                /\ vps_status'[h].username = config.username
                /\ vps_status'[h].last_check = now
                /\ \A g \in DOMAIN vps_status \ {h} :
                        vps_status'[g] = vps_status[g]]_vars

\* two writes were made and the store holds one record: the earlier record of
\* the hostname has been replaced by a different one
C16_Witness ==
    /\ stores = 2
    /\ Len(key_order) = 1
    /\ \E w \in written :
            /\ w[1] \in DOMAIN vps_status
            /\ vps_status[w[1]] # w[2]

----------------------------------------------------------------------------
(* C17: a GET /status/<hostname> request, interleaved in any way with the
   writes of the pass, is answered with status 200 and the record stored
   under the hostname at that moment when the hostname has a record, and with
   the 404 not-found result when it has none; it is never answered in any
   other way, and no step of the request changes the store. *)
C17_ReadOneAnswers ==
    [][/\ <<r_pc, r_host, r_result>>' # <<r_pc, r_host, r_result>> =>
            /\ vps_status' = vps_status
            /\ key_order' = key_order
       /\ (r_pc' = "done" /\ (r_pc # "done" \/ requests' # requests)) =>
            r_result' = IF r_host' \in DOMAIN vps_status
                        THEN [code |-> 200, body |-> vps_status[r_host']]
                        ELSE NotFound
       /\ r_result'.code \in {0, 200, 404}]_vars

\* a request was answered with the record of one hostname while the pass was
\* inside the call for another hostname
C17_Witness ==
    /\ r_pc = "done"
    /\ r_result.code = 200
    /\ r_result.body = vps_status[r_host]
    /\ InCheck
    /\ config.hostname # r_host

----------------------------------------------------------------------------
(* C18: a pass in which k hosts failed to connect on every attempt takes at
   least k * retries * delay time-units from its start to the end of its for
   loop; a call whose attempts all failed has waited the delay `retries`
   times, once after each failed attempt, the last one included; and the
   calls' waits add up, one host after the other. *)
C18_FailedHostsDelayPass ==
    /\ \A n \in 1..Len(ends) :
            ends[n] - starts[n] >= Cardinality(FailedIn(n)) * retries * delay
    /\ (pc = "connect" => sleeps = attempt /\ now - starts[Len(starts)] >= sleeps * delay)
    /\ (Returned /\ client = "None") => sleeps = retries

\* a pass over two hosts, both unreachable, has ended
C18_Witness ==
    /\ Len(ends) = 1
    /\ Len(vps_configs) = 2
    /\ Cardinality(FailedIn(1)) = 2
    /\ ends[1] - starts[1] = 2 * retries * delay

----------------------------------------------------------------------------
(* C19: within one pass the records are written in configuration order: the
   configs carry the indexes 1, 2, ... in list order, the call for the config
   at position i begins only when the calls for all earlier positions, and no
   others, have been made and the previous call has written its record and
   holds no open session, and a write made by the call at position i carries
   index i, follows the writes of all lower indexes and precedes those of all
   higher ones. *)
C19_WritesInConfigOrder ==
    [][/\ \A k \in 1..Len(vps_configs') : vps_configs'[k].index = k
       /\ (pc = "check" /\ pc' = "connect") =>
            /\ config' = vps_configs[i]
            /\ checked = 1..(i - 1)
            /\ client # "open"
            /\ i > 1 => nwrites = 1 /\ wrote = vps_configs[i - 1].hostname
       /\ stores' = stores + 1 =>
            /\ config.index = i
            /\ vps_status'[config.hostname].index = i
            /\ {w[2].index : w \in written} = 1..(i - 1)]_vars

\* a pass over two hostnames has written both records, the first config's first
C19_Witness ==
    /\ pc = "table"
    /\ stores = 2
    /\ Len(vps_configs) = 2
    /\ key_order = <<vps_configs[1].hostname, vps_configs[2].hostname>>
    /\ vps_status[key_order[1]].index = 1
    /\ vps_status[key_order[2]].index = 2

----------------------------------------------------------------------------
(* C20: while the attempts of a call fail the store is not touched and no
   command is issued, and the step in which the call gives up returns with
   no session, no command issued at all, and one write: the store is the
   store before the step with the Connection Failed record of the call under
   the call's hostname, every other hostname keeping its record. *)
C20_FailedHostTouchesOnlyItsRecord ==
    [][/\ (pc = "connect" /\ pc' = "connect") =>
            vps_status' = vps_status /\ cmds' = <<>>
       /\ (pc = "connect" /\ pc' \notin {"connect", "probe"}) =>
            /\ client' = "None"
            /\ connects' = retries
            /\ cmds' = <<>>
            /\ nwrites' = 1
            /\ DOMAIN vps_status' = DOMAIN vps_status \cup {config.hostname}
            /\ vps_status'[config.hostname]
                   = StatusRecord(config, "Connection Failed", now)
            /\ \A g \in DOMAIN vps_status \ {config.hostname} :
                    vps_status'[g] = vps_status[g]]_vars

\* the second host was unreachable: its record says so, and the first host's
\* record is the Running record its own call wrote
C20_Witness ==
    /\ pc = "table"
    /\ Len(vps_configs) = 2
    /\ config = vps_configs[2]
    /\ client = "None"
    /\ cmds = <<>>
    /\ HasRecord("Connection Failed")
    /\ vps_configs[1].hostname # config.hostname
    /\ vps_status[vps_configs[1].hostname].status = "Running"

====
